---- MODULE Spec2Model ----
(***************************************************************************)
(* Model of the configuration layer of dagster-poc:                        *)
(*   src/dagster_poc/schemas/assets.py  (pydantic schema + validators)     *)
(*   src/dagster_poc/assets/builder.py  (definition builder)               *)
(*                                                                         *)
(* Python values are modelled as follows.                                  *)
(*   - Optional[X] is a record [isNone, v]; None is [isNone |-> TRUE].     *)
(*   - an asset name / depends_on string is a sequence of one-character    *)
(*     strings (the code iterates over the characters of depends_on);      *)
(*     other strings are TLA+ strings.                                     *)
(*   - a call returns a record [kind, value, exc, msg]: kind "return"      *)
(*     carries value, kind "raise" carries the exception class and text.   *)
(*   - pydantic turns a ValueError raised by a validator into one entry    *)
(*     of the ValidationError it returns; any other exception class        *)
(*     leaves model_validate as that exception.                            *)
(***************************************************************************)
EXTENDS Integers, Sequences, FiniteSets, TLC

\* ---------------------------------------------------------------- bounds
MaxAssets == 2
MaxParts == 2
MaxNames == 4
MaxVal == 2
MaxCalls == 2

\* ------------------------------------------------------- python helpers
None == [isNone |-> TRUE, v |-> <<>>]
Some(x) == [isNone |-> FALSE, v |-> x]

Return(x) == [kind |-> "return", value |-> x, exc |-> "", msg |-> ""]
Raise(e, m) == [kind |-> "raise", value |-> None, exc |-> e, msg |-> m]

Range(s) == {s[i] : i \in 1..Len(s)}
SeqsUpTo(S, n) == UNION {[1..k -> S] : k \in 0..n}
Chars(s) == {<<s[i]>> : i \in 1..Len(s)}
HasAttr(obj, attr) == attr \in DOMAIN obj

MsgDuplicate == "Duplicate names found"
MsgUndefinedAsset == "Undefined asset names referenced"
MsgUndefinedPartition == "Undefined partition names referenced"

\* --------------------------------------------- YamlConfiguration passes

\* a variant that compares neighbouring names only
check_names_are_unique_mut(value) ==
    IF ~value.isNone /\ Len(value.v) > 0
    THEN IF \E i \in 1..(Len(value.v) - 1) : value.v[i].name = value.v[i + 1].name
         THEN Raise("ValueError", MsgDuplicate)
         ELSE Return(value)
    ELSE Return(None)

\* len(names) != len(set(names)), names = [i.name for i in value]
check_names_are_unique(value) ==
    IF ~value.isNone /\ Len(value.v) > 0
    THEN LET names == [i \in 1..Len(value.v) |-> value.v[i].name]
         IN  IF Len(names) # Cardinality(Range(names))
             THEN Raise("ValueError", MsgDuplicate)
             ELSE Return(value)
    ELSE Return(None)   \* the function falls off its end: returns None

\* value is what the previous validator of the `assets` chain returned
ensure_asset_dependencies_exist(value) ==
    IF value.isNone
    THEN Raise("TypeError", "NoneType object is not iterable")
    ELSE IF \E i \in 1..Len(value.v) : ~HasAttr(value.v[i], "names")
    THEN Raise("AttributeError", "Asset object has no attribute names")
    ELSE LET asset_names == {value.v[i].names : i \in 1..Len(value.v)}
             asset_deps == UNION {
                 IF ~value.v[i].depends_on.isNone /\ Len(value.v[i].depends_on.v) > 0
                 THEN Chars(value.v[i].depends_on.v)   \* list.extend(str)
                 ELSE {} : i \in 1..Len(value.v)}
             difference == asset_deps \ asset_names
         IN  IF Cardinality(difference) > 0
             THEN Raise("ValueError", MsgUndefinedAsset)
             ELSE Return(value)

\* self.partitions and self.assets hold what the field validators returned
check_partitions_exist(self) ==
    IF ~self.partitions.isNone /\ Len(self.partitions.v) > 0
    THEN IF self.assets.isNone
         THEN Raise("TypeError", "NoneType object is not iterable")
         ELSE LET partition_names == {self.partitions.v[i].name : i \in 1..Len(self.partitions.v)}
                  bad(asset) == /\ ~asset.partitions.isNone
                                /\ \E j \in 1..Len(asset.partitions.v) :
                                       asset.partitions.v[j] \notin partition_names
              IN  IF \E i \in 1..Len(self.assets.v) : bad(self.assets.v[i])
                  THEN Raise("ValueError", MsgUndefinedPartition)
                  ELSE Return(self)
    ELSE Return(self)

\* -------------------------------------- YamlConfiguration.model_validate
Document == [kind |-> "Document", errors |-> {}, exc |-> ""]
ValidationError(errs) == [kind |-> "ValidationError", errors |-> errs, exc |-> ""]
Exception(e) == [kind |-> "Exception", errors |-> {}, exc |-> e]

FieldErrors(loc, r) ==
    IF r.kind = "raise" /\ r.exc = "ValueError" THEN {[loc |-> loc, msg |-> r.msg]} ELSE {}
Escapes(r) == r.kind = "raise" /\ r.exc # "ValueError"

\* a variant that runs the model-level validator in spite of field errors
YamlConfiguration_mut(raw) ==
    LET pr == check_names_are_unique(raw.partitions)
        a1 == check_names_are_unique(Some(raw.assets))
        mr == check_partitions_exist([partitions |-> raw.partitions, assets |-> Some(raw.assets)])
        errors == FieldErrors("partitions", pr) \cup FieldErrors("assets", a1)
                    \cup FieldErrors("", mr)
    IN  IF errors # {} THEN ValidationError(errors)
        ELSE LET a2 == ensure_asset_dependencies_exist(a1.value)
             IN  IF Escapes(a2) THEN Exception(a2.exc)
                 ELSE IF a2.kind = "raise" THEN ValidationError(FieldErrors("assets", a2))
                 ELSE Document

\* fields in declaration order (partitions, assets), each through its chain of
\* validators in definition order; the mode="after" model validator only when
\* no field reported an error
YamlConfiguration(raw) ==
    LET pr == check_names_are_unique(raw.partitions)
        a1 == check_names_are_unique(Some(raw.assets))
        a2 == IF a1.kind = "return" THEN ensure_asset_dependencies_exist(a1.value) ELSE a1
        fieldErrors == FieldErrors("partitions", pr) \cup FieldErrors("assets", a2)
    IN  IF Escapes(a2) THEN Exception(a2.exc)
        ELSE IF fieldErrors # {} THEN ValidationError(fieldErrors)
        ELSE LET mr == check_partitions_exist([partitions |-> pr.value, assets |-> a2.value])
             IN  IF Escapes(mr) THEN Exception(mr.exc)
                 ELSE IF mr.kind = "raise" THEN ValidationError(FieldErrors("", mr))
                 ELSE Document

\* ------------------------------------------------- check variant records
\* None for an absent integer / plain-string entry of a raw field map
NoneInt == [isNone |-> TRUE, v |-> 0]
NoneStr == [isNone |-> TRUE, v |-> ""]

DefaultAnomalyFromN == 10
MinAnomalyFromN == 3

MsgFieldRequired == "Field required"
MsgGreaterThan == "Input should be greater than 0"
MsgAnomalyGte3 == "Must be >= 3"
MsgValuePositive == "value attribute must be positive"
MsgMinLtMax == "min.value must be less than max.value"
MsgInvalidCheckType == "Invalid check_type"
MsgModelType == "Input should be a valid dictionary or instance of a union member"

CheckTypeEnum == {"schema", "volume", "unique", "bounds", "nullity", "regex"}

Err(loc, msg) == [loc |-> loc, msg |-> msg]
\* a required str field: the key must be present
Required(loc, entry) == IF entry.isNone THEN {Err(loc, MsgFieldRequired)} ELSE {}

\* a variant record; fields a variant does not declare stay absent
NoInstance == [cls |-> "", column |-> NoneStr, pattern |-> NoneStr,
               anomaly_from_n |-> 0, min |-> NoneInt, max |-> NoneInt]
Built(inst) == [kind |-> "return", inst |-> inst, errors |-> {}, exc |-> ""]
Invalid(errs) == [kind |-> "raise", inst |-> NoInstance, errors |-> errs, exc |-> "ValidationError"]
Thrown(e) == [kind |-> "raise", inst |-> NoInstance, errors |-> {}, exc |-> e]

check_anomaly_from_n_gte_3(v) ==
    IF v < MinAnomalyFromN THEN Raise("ValueError", MsgAnomalyGte3) ELSE Return(None)

\* value is the Optional bound of the field; value.v is its `value` attribute
check_min_max_positive(v) ==
    IF ~v.isNone /\ v.v <= 0 THEN Raise("ValueError", MsgValuePositive) ELSE Return(None)

\* a variant that lets equal bounds through
Volume_check_min_lt_max_mut(self) ==
    IF ~self.min.isNone /\ ~self.max.isNone /\ self.min.v > self.max.v
    THEN Raise("ValueError", MsgMinLtMax)
    ELSE Return(None)

\* a model instance is truthy, so `self.min and self.max` is "both are set"
Volume_check_min_lt_max(self) ==
    IF ~self.min.isNone /\ ~self.max.isNone /\ self.min.v >= self.max.v
    THEN Raise("ValueError", MsgMinLtMax)
    ELSE Return(None)

Bounds_check_min_lt_max(self) ==
    IF ~self.min.isNone /\ ~self.max.isNone /\ self.min.v >= self.max.v
    THEN Raise("ValueError", MsgMinLtMax)
    ELSE Return(None)

SchemaCheckConfig(m) == Built([NoInstance EXCEPT !.cls = "SchemaCheckConfig"])

VolumeFieldErrors(m) ==
    (IF m.anomaly_from_n.isNone THEN {}                       \* default, not validated
     ELSE IF m.anomaly_from_n.v <= 0 THEN {Err("anomaly_from_n", MsgGreaterThan)}
     ELSE FieldErrors("anomaly_from_n", check_anomaly_from_n_gte_3(m.anomaly_from_n.v)))
    \cup FieldErrors("min", check_min_max_positive(m.min))
    \cup FieldErrors("max", check_min_max_positive(m.max))

VolumeInstance(m) ==
    [NoInstance EXCEPT !.cls = "VolumeCheckConfig",
        !.anomaly_from_n = IF m.anomaly_from_n.isNone THEN DefaultAnomalyFromN
                           ELSE m.anomaly_from_n.v,
        !.min = m.min, !.max = m.max]

\* a variant that evaluates the record-level rule along with the field rules
VolumeCheckConfig_mut(m) ==
    LET errors == VolumeFieldErrors(m) \cup FieldErrors("", Volume_check_min_lt_max(VolumeInstance(m)))
    IN  IF errors # {} THEN Invalid(errors) ELSE Built(VolumeInstance(m))

\* field validators first; the mode="after" validator only on a record whose
\* fields all validated
VolumeCheckConfig(m) ==
    LET fieldErrors == VolumeFieldErrors(m)
    IN  IF fieldErrors # {} THEN Invalid(fieldErrors)
        ELSE LET after == Volume_check_min_lt_max(VolumeInstance(m))
             IN  IF after.kind = "raise" THEN Invalid(FieldErrors("", after))
                 ELSE Built(VolumeInstance(m))

UniqueCheckConfig(m) ==
    LET fieldErrors == Required("column", m.column)
    IN  IF fieldErrors # {} THEN Invalid(fieldErrors)
        ELSE Built([NoInstance EXCEPT !.cls = "UniqueCheckConfig", !.column = m.column])

BoundsInstance(m) ==
    [NoInstance EXCEPT !.cls = "BoundsCheckConfig", !.column = m.column,
        !.min = m.min, !.max = m.max]

BoundsCheckConfig(m) ==
    LET fieldErrors == Required("column", m.column)
    IN  IF fieldErrors # {} THEN Invalid(fieldErrors)
        ELSE LET after == Bounds_check_min_lt_max(BoundsInstance(m))
             IN  IF after.kind = "raise" THEN Invalid(FieldErrors("", after))
                 ELSE Built(BoundsInstance(m))

NullCheckConfig(m) ==
    LET fieldErrors == Required("column", m.column)
    IN  IF fieldErrors # {} THEN Invalid(fieldErrors)
        ELSE Built([NoInstance EXCEPT !.cls = "NullCheckConfig", !.column = m.column])

RegexCheckConfig(m) ==
    LET fieldErrors == Required("column", m.column) \cup Required("pattern", m.pattern)
    IN  IF fieldErrors # {} THEN Invalid(fieldErrors)
        ELSE Built([NoInstance EXCEPT !.cls = "RegexCheckConfig", !.column = m.column,
                        !.pattern = m.pattern])

\* ------------------------------------------------------------ Check entity
\* a raw `config` entry: shape "absent" (no key), "mapping" (m holds the field
\* map), "other" (None, a string, a list) or "instance" (inst is a variant record)
EmptyMap == [column |-> NoneStr, pattern |-> NoneStr, anomaly_from_n |-> NoneInt,
             min |-> NoneInt, max |-> NoneInt]
RawConfig(shape, m, inst) == [shape |-> shape, m |-> m, inst |-> inst]

\* Cls(**config): only a mapping can be unpacked; constructed is Cls(**config.m)
Unpack(config, constructed) ==
    IF config.shape = "mapping" THEN constructed
    ELSE Thrown("TypeError")

\* the Union annotated on Check.config
CheckConfigUnion == {"SchemaCheckConfig", "VolumeCheckConfig", "UniqueCheckConfig",
                     "BoundsCheckConfig", "NullCheckConfig"}

CheckOutcome(kind, data, errs, e) == [kind |-> kind, data |-> data, errors |-> errs, exc |-> e]

\* Check.model_validate(data): set_config (mode="before"), then the fields.
\* The outcome carries data as set_config left it: the caller's dict.
Check(data) ==
    LET config == IF data.config.shape = "absent" THEN RawConfig("mapping", EmptyMap, NoInstance)
                  ELSE data.config                       \* data.get("config", {})
    IN  IF data.check_type.isNone THEN CheckOutcome("Exception", data, {}, "KeyError")
        ELSE IF data.check_type.v \notin CheckTypeEnum
        THEN CheckOutcome("ValidationError", data, {Err("", MsgInvalidCheckType)}, "")
        ELSE LET t == data.check_type.v
                 r == CASE t = "schema" -> Unpack(config, SchemaCheckConfig(config.m))
                        [] t = "volume" -> Unpack(config, VolumeCheckConfig(config.m))
                        [] t = "unique" -> Unpack(config, UniqueCheckConfig(config.m))
                        [] t = "bounds" -> Unpack(config, BoundsCheckConfig(config.m))
                        [] t = "nullity" -> Unpack(config, NullCheckConfig(config.m))
                        [] t = "regex" -> Unpack(config, RegexCheckConfig(config.m))
             IN  IF r.kind = "raise" /\ r.exc # "ValidationError"
                 THEN CheckOutcome("Exception", data, {}, r.exc)
                 ELSE IF r.kind = "raise"
                 THEN CheckOutcome("ValidationError", data, r.errors, "")
                 ELSE LET data2 == [data EXCEPT !.config = RawConfig("instance", EmptyMap, r.inst)]
                      IN  IF r.inst.cls \in CheckConfigUnion
                          THEN CheckOutcome("Check", data2, {}, "")
                          ELSE CheckOutcome("ValidationError", data2, {Err("config", MsgModelType)}, "")

\* --------------------------------------------- partition variant records
MsgInvalidDate == "Invalid date_format"
MsgInvalidPartitionType == "Invalid partition_type"

PartitionTypeEnum == {"hourly", "daily", "weekly", "monthly", "categorical"}

Digits == {"0", "1", "2", "3", "4", "5", "6", "7", "8", "9"}
DateLen == 10

\* re.fullmatch(r"^\d{4}-\d{2}-\d{2}$", value) on a string of characters
MatchesDate(str) ==
    /\ Len(str) = DateLen
    /\ \A i \in 1..DateLen : IF i \in {5, 8} THEN str[i] = "-" ELSE str[i] \in Digits

\* value is the Optional raw entry; an absent key is not validated
ensure_date_format(v) ==
    IF ~v.isNone /\ ~MatchesDate(v.v) THEN Raise("ValueError", MsgInvalidDate) ELSE Return(v)

PNoInstance == [cls |-> "", start_date |-> None, end_date |-> None, categories |-> None]
PEmptyMap == [start_date |-> None, end_date |-> None, categories |-> None]

\* TimePartitionConfig fields, shared by the four time-based variants
TimeFieldErrors(m) ==
    (IF m.start_date.isNone THEN {Err("start_date", MsgFieldRequired)}
     ELSE FieldErrors("start_date", ensure_date_format(m.start_date)))
    \cup FieldErrors("end_date", ensure_date_format(m.end_date))

TimeConfig(cls, m) ==
    IF TimeFieldErrors(m) # {} THEN [Invalid(TimeFieldErrors(m)) EXCEPT !.inst = PNoInstance]
    ELSE Built([PNoInstance EXCEPT !.cls = cls, !.start_date = m.start_date,
                    !.end_date = m.end_date])

HourlyPartitionConfig(m) == TimeConfig("HourlyPartitionConfig", m)
DailyPartitionConfig(m) == TimeConfig("DailyPartitionConfig", m)
WeeklyPartitionConfig(m) == TimeConfig("WeeklyPartitionConfig", m)
MonthlyPartitionConfig(m) == TimeConfig("MonthlyPartitionConfig", m)

CategoricalPartitionConfig(m) ==
    IF m.categories.isNone
    THEN [Invalid({Err("categories", MsgFieldRequired)}) EXCEPT !.inst = PNoInstance]
    ELSE Built([PNoInstance EXCEPT !.cls = "CategoricalPartitionConfig",
                    !.categories = m.categories])

\* the classes an instance of cls is an instance of (class statements, lines 55-70)
Bases(cls) ==
    CASE cls = "HourlyPartitionConfig" -> {"HourlyPartitionConfig"}
      [] cls = "DailyPartitionConfig" -> {"DailyPartitionConfig", "HourlyPartitionConfig"}
      [] cls = "WeeklyPartitionConfig" ->
            {"WeeklyPartitionConfig", "DailyPartitionConfig", "HourlyPartitionConfig"}
      [] cls = "MonthlyPartitionConfig" ->
            {"MonthlyPartitionConfig", "WeeklyPartitionConfig", "DailyPartitionConfig",
             "HourlyPartitionConfig"}
      [] OTHER -> {cls}
isinstance(inst, cls) == cls \in Bases(inst.cls)

\* the Union annotated on Partition.config
PartitionConfigUnion == {"HourlyPartitionConfig", "DailyPartitionConfig", "WeeklyPartitionConfig",
                         "MonthlyPartitionConfig", "CategoricalPartitionConfig"}

PUnpack(config, constructed) ==
    IF config.shape = "mapping" THEN constructed
    ELSE [Thrown("TypeError") EXCEPT !.inst = PNoInstance]

\* Partition.model_validate(data): set_config (mode="before"), then the fields.
\* The outcome carries data as set_config left it: the caller's dict.
Partition(data) ==
    LET config == IF data.config.shape = "absent" THEN RawConfig("mapping", PEmptyMap, PNoInstance)
                  ELSE data.config                       \* data.get("config", {})
    IN  IF data.partition_type.isNone THEN CheckOutcome("Exception", data, {}, "KeyError")
        ELSE IF data.partition_type.v \notin PartitionTypeEnum
        THEN CheckOutcome("ValidationError", data, {Err("", MsgInvalidPartitionType)}, "")
        ELSE LET t == data.partition_type.v
                 r == CASE t = "hourly" -> PUnpack(config, HourlyPartitionConfig(config.m))
                        [] t = "daily" -> PUnpack(config, DailyPartitionConfig(config.m))
                        [] t = "weekly" -> PUnpack(config, WeeklyPartitionConfig(config.m))
                        [] t = "monthly" -> PUnpack(config, MonthlyPartitionConfig(config.m))
                        [] t = "categorical" -> PUnpack(config, CategoricalPartitionConfig(config.m))
             IN  IF r.kind = "raise" /\ r.exc # "ValidationError"
                 THEN CheckOutcome("Exception", data, {}, r.exc)
                 ELSE IF r.kind = "raise"
                 THEN CheckOutcome("ValidationError", data, r.errors, "")
                 ELSE LET data2 == [data EXCEPT !.config = RawConfig("instance", PEmptyMap, r.inst)]
                          fieldErrors ==
                              Required("name", data.name)
                              \cup (IF \E c \in PartitionConfigUnion : isinstance(r.inst, c)
                                    THEN {} ELSE {Err("config", MsgModelType)})
                      IN  IF fieldErrors = {}
                          THEN CheckOutcome("Partition", data2, {}, "")
                          ELSE CheckOutcome("ValidationError", data2, fieldErrors, "")

\* ------------------------------------------------ build_dagster_partition
\* config.model_dump(by_alias=True): the keyword names handed to the call
model_dump(config) ==
    IF config.cls = "CategoricalPartitionConfig" THEN {"partition_keys"}
    ELSE {"start_date", "end_date", "timezone", "fmt", "end_offset", "minute_offset"}
         \cup (IF isinstance(config, "DailyPartitionConfig") THEN {"hour_offset"} ELSE {})
         \cup (IF isinstance(config, "WeeklyPartitionConfig") THEN {"day_offset"} ELSE {})

Definition(call, kwargs) == [call |-> call, kwargs |-> kwargs]
NotBuilt == Definition("", {})

build_dagster_partition(partition) ==
    LET config == partition.config.inst
        config_kwargs == model_dump(config)
    IN  IF isinstance(config, "HourlyPartitionConfig")
        THEN Definition("HourlyPartitionsDefinition", config_kwargs)
        ELSE IF isinstance(config, "DailyPartitionConfig")
        THEN Definition("DailyPartitionsDefinition", config_kwargs)
        ELSE IF isinstance(config, "WeeklyPartitionConfig")
        THEN Definition("WeeklyPartitionsDefinition", config_kwargs)
        ELSE IF isinstance(config, "MonthlyPartitionConfig")
        THEN Definition("MonthlyPartitionsDefinition", config_kwargs)
        ELSE IF isinstance(config, "CategoricalPartitionConfig")
        THEN Definition("StaticPartitionsDefinition", config_kwargs)
        ELSE Definition("ValueError", {})

\* ------------------------------------------------------------ the inputs
AssetNames == {<<"a">>, <<"a", "b">>}
PartitionNames == {"p", "q"}
DependsOnChoices == {None, Some(<<>>)} \cup {Some(n) : n \in AssetNames}
AssetPartitionChoices ==
    {None, Some(<<"p", "q">>)} \cup {Some(s) : s \in SeqsUpTo(PartitionNames, 1)}
AssetRecords == [name : AssetNames, depends_on : DependsOnChoices, partitions : AssetPartitionChoices]
PartitionRecords == [name : PartitionNames]
RawDocuments ==
    [partitions : {None} \cup {Some(s) : s \in SeqsUpTo(PartitionRecords, MaxParts)},
     assets : SeqsUpTo(AssetRecords, MaxAssets)]
EntityNames == {"x", "y", "z"}
NameLists == {None} \cup {Some(s) : s \in SeqsUpTo([name : EntityNames], MaxNames)}


BoundChoices == {NoneInt} \cup {Some(n) : n \in (0 - 1)..MaxVal}
CheckMaps ==
    [column : {NoneStr, Some("c")}, pattern : {NoneStr, Some("x")},
     anomaly_from_n : {NoneInt, Some(0), Some(MinAnomalyFromN - 1), Some(MinAnomalyFromN)},
     min : BoundChoices, max : BoundChoices]
RawChecks ==
    [check_type : {NoneStr, Some("bogus")} \cup {Some(t) : t \in CheckTypeEnum},
     config : {RawConfig("absent", EmptyMap, NoInstance), RawConfig("other", EmptyMap, NoInstance)}
              \cup {RawConfig("mapping", m, NoInstance) : m \in CheckMaps}]

GoodDate == <<"2", "0", "2", "4", "-", "0", "1", "-", "0", "5">>
ShortDate == <<"2", "0", "2", "4", "-", "1", "-", "5">>
BadDate == <<"b", "a", "d", "-", "d", "a", "t", "e">>
PartitionMaps ==
    [start_date : {None, Some(GoodDate), Some(ShortDate), Some(BadDate)},
     end_date : {None, Some(GoodDate), Some(ShortDate)},
     categories : {None, Some(<<"k1", "k2">>)}]
RawPartitions ==
    [name : {NoneStr, Some("p1")},
     partition_type : {NoneStr, Some("bogus")} \cup {Some(t) : t \in PartitionTypeEnum},
     config : {RawConfig("absent", PEmptyMap, PNoInstance), RawConfig("other", PEmptyMap, PNoInstance)}
              \cup {RawConfig("mapping", m, PNoInstance) : m \in PartitionMaps}]

NoData == [config |-> [shape |-> "absent"]]
NoResult == CheckOutcome("none", NoData, {}, "")

NoCall == [kind |-> "none", value |-> None, exc |-> "", msg |-> ""]
NoOutcome == [kind |-> "none", errors |-> {}, exc |-> ""]
NoDoc == [partitions |-> None, assets |-> <<>>]

VARIABLES
    pc,            \* where the caller is
    doc,           \* the raw document handed to YamlConfiguration
    outcome,       \* what YamlConfiguration.model_validate ended in
    passResult,    \* what check_partitions_exist returned or raised
    value,         \* the list handed to check_names_are_unique
    uniqueResult,  \* what check_names_are_unique returned or raised
    data,          \* the caller's raw partition / check dict
    orig,          \* that dict as it was before the first call
    result,        \* what the last model_validate(data) ended in
    calls,         \* how many times data was validated
    built          \* what build_dagster_partition selected

vars == <<pc, doc, outcome, passResult, value, uniqueResult, data, orig, result, calls, built>>
docVars == <<doc, outcome, passResult>>
nameVars == <<value, uniqueResult>>
entityVars == <<data, orig, result, calls, built>>

IdleEntity ==
    /\ data = NoData
    /\ orig = NoData
    /\ result = NoResult
    /\ calls = 0
    /\ built = NotBuilt

\* ------------------------------------------------ document specification
InitDoc ==
    /\ pc = "start"
    /\ doc \in RawDocuments
    /\ outcome = NoOutcome
    /\ passResult = NoCall
    /\ value = None
    /\ uniqueResult = NoCall
    /\ IdleEntity

\* YamlConfiguration.model_validate(doc)
ModelValidate ==
    /\ pc = "start"
    /\ outcome' = YamlConfiguration(doc)
    /\ pc' = "validated"
    /\ UNCHANGED <<doc, passResult, nameVars, entityVars>>

\* the model-level pass applied to an instance holding the document's fields
CheckPartitionsExist ==
    /\ pc = "start"
    /\ passResult' = check_partitions_exist([partitions |-> doc.partitions, assets |-> Some(doc.assets)])
    /\ pc' = "passed"
    /\ UNCHANGED <<doc, outcome, nameVars, entityVars>>

NextDoc == ModelValidate \/ CheckPartitionsExist

Spec == InitDoc /\ [][NextDoc]_vars

\* ------------------------------------------- name-uniqueness specification
InitNames ==
    /\ pc = "start"
    /\ doc = NoDoc
    /\ outcome = NoOutcome
    /\ passResult = NoCall
    /\ value \in NameLists
    /\ uniqueResult = NoCall
    /\ IdleEntity

CheckNamesAreUnique ==
    /\ pc = "start"
    /\ uniqueResult' = check_names_are_unique(value)
    /\ pc' = "checked"
    /\ UNCHANGED <<docVars, value, entityVars>>

NextNames == CheckNamesAreUnique

SpecNames == InitNames /\ [][NextNames]_vars

\* ---------------------------------------------------- check specification
InitCheck ==
    /\ pc = "check"
    /\ doc = NoDoc
    /\ outcome = NoOutcome
    /\ passResult = NoCall
    /\ value = None
    /\ uniqueResult = NoCall
    /\ data \in RawChecks
    /\ orig = data
    /\ result = NoResult
    /\ calls = 0
    /\ built = NotBuilt

\* Check.model_validate(data) on the caller's dict, which set_config writes to
ValidateCheck ==
    /\ pc = "check"
    /\ calls < MaxCalls
    /\ result' = Check(data)
    /\ data' = result'.data
    /\ calls' = calls + 1
    /\ UNCHANGED <<pc, docVars, nameVars, orig, built>>

NextCheck == ValidateCheck

SpecCheck == InitCheck /\ [][NextCheck]_vars

\* ------------------------------------------------ partition specification
InitPart ==
    /\ pc = "partition"
    /\ doc = NoDoc
    /\ outcome = NoOutcome
    /\ passResult = NoCall
    /\ value = None
    /\ uniqueResult = NoCall
    /\ data \in RawPartitions
    /\ orig = data
    /\ result = NoResult
    /\ calls = 0
    /\ built = NotBuilt

\* Partition.model_validate(data) on the caller's dict, which set_config writes to
ValidatePartition ==
    /\ pc = "partition"
    /\ calls < MaxCalls
    /\ result' = Partition(data)
    /\ data' = result'.data
    /\ calls' = calls + 1
    /\ UNCHANGED <<pc, docVars, nameVars, orig, built>>

\* build_dagster_partition(partition) on a validated Partition
BuildDagsterPartition ==
    /\ pc = "partition"
    /\ result.kind = "Partition"
    /\ built' = build_dagster_partition(result.data)
    /\ pc' = "built"
    /\ UNCHANGED <<docVars, nameVars, data, orig, result, calls>>

NextPart == ValidatePartition \/ BuildDagsterPartition

SpecPart == InitPart /\ [][NextPart]_vars

\* ================================================================ claims
\* What the document says about itself, read off the raw document alone.
NamesOf(list) == {list[i].name : i \in 1..Len(list)}
RepeatedNames(list) ==
    {n \in NamesOf(list) : \E i, j \in 1..Len(list) : i # j /\ list[i].name = n /\ list[j].name = n}
PartitionList(d) == IF d.partitions.isNone THEN <<>> ELSE d.partitions.v
DanglingDependency(d) ==
    \E i \in 1..Len(d.assets) :
        /\ ~d.assets[i].depends_on.isNone
        /\ d.assets[i].depends_on.v # <<>>
        /\ d.assets[i].depends_on.v \notin NamesOf(d.assets)
DanglingPartition(d) ==
    \E i \in 1..Len(d.assets) :
        /\ ~d.assets[i].partitions.isNone
        /\ \E j \in 1..Len(d.assets[i].partitions.v) :
               d.assets[i].partitions.v[j] \notin NamesOf(PartitionList(d))
NumViolations(r) == IF r.kind = "raise" /\ r.exc = "ValueError" THEN 1 ELSE 0

\* C1 (as claimed): a document with unique names and no other defect validates
\* iff every non-empty depends_on names an asset of the document, and is
\* otherwise rejected with the dangling-dependency validation error.
C1_DependencyClosure ==
    (/\ pc = "validated"
     /\ doc.assets # <<>>
     /\ RepeatedNames(doc.assets) = {}
     /\ RepeatedNames(PartitionList(doc)) = {}
     /\ ~DanglingPartition(doc))
    => IF DanglingDependency(doc)
       THEN /\ outcome.kind = "ValidationError"
            /\ Err("assets", MsgUndefinedAsset) \in outcome.errors
       ELSE outcome.kind = "Document"

\* C2 (as claimed): the partition-reference pass raises its violation exactly
\* when some asset lists a partition name that is not the name of a partition
\* of the document, a document without partitions included.
C2_PartitionClosure ==
    pc = "passed" =>
        ((passResult.kind = "raise" /\ passResult.exc = "ValueError" /\ passResult.msg = MsgUndefinedPartition)
            <=> DanglingPartition(doc))

BothBounds(t) ==
    /\ pc = "check"
    /\ calls = 1
    /\ orig.check_type = Some(t)
    /\ orig.config.shape = "mapping"
    /\ ~orig.config.m.min.isNone
    /\ ~orig.config.m.max.isNone
OtherFieldsValid(t) ==
    IF t = "bounds" THEN ~orig.config.m.column.isNone
    ELSE orig.config.m.anomaly_from_n.isNone \/ orig.config.m.anomaly_from_n.v >= 3
MinV == orig.config.m.min.v
MaxV == orig.config.m.max.v
CrossFieldViolation == Err("", MsgMinLtMax)
Ordered(t) ==
    IF MinV >= MaxV
    THEN result.kind = "ValidationError" /\ result.errors = {CrossFieldViolation}
    ELSE result.kind = "Check" /\ result.data.config.inst.min.v = MinV
            /\ result.data.config.inst.max.v = MaxV

\* C4 (as claimed): for volume and bounds checks and every integer pair
\* (min.value, max.value), construction fails with the cross-field violation
\* when min.value >= max.value and succeeds when min.value < max.value.
C4_BoundOrdering ==
    \A t \in {"volume", "bounds"} : (BothBounds(t) /\ OtherFieldsValid(t)) => Ordered(t)

\* C4 (amended): that holds for bounds checks and every integer pair, and for
\* volume checks and every pair of strictly positive integers; a volume check
\* with a bound <= 0 fails with the field-level positivity violation and no
\* cross-field violation, whatever the order of the two values.
C4_BoundOrderingPositive ==
    /\ (BothBounds("bounds") /\ OtherFieldsValid("bounds")) => Ordered("bounds")
    /\ (BothBounds("volume") /\ OtherFieldsValid("volume")) =>
          IF MinV > 0 /\ MaxV > 0 THEN Ordered("volume")
          ELSE /\ result.kind = "ValidationError"
               /\ result.errors = (IF MinV <= 0 THEN {Err("min", MsgValuePositive)} ELSE {})
                                   \cup (IF MaxV <= 0 THEN {Err("max", MsgValuePositive)} ELSE {})

C4_Witness ==
    /\ BothBounds("volume") /\ OtherFieldsValid("volume")
    /\ MinV = MaxV /\ MinV > 0
    /\ CrossFieldViolation \in result.errors

\* The classes the tags of the two enums stand for.
CheckClass(t) ==
    CASE t = "schema" -> "SchemaCheckConfig" [] t = "volume" -> "VolumeCheckConfig"
      [] t = "unique" -> "UniqueCheckConfig" [] t = "bounds" -> "BoundsCheckConfig"
      [] t = "nullity" -> "NullCheckConfig" [] t = "regex" -> "RegexCheckConfig"
PartitionClass(t) ==
    CASE t = "hourly" -> "HourlyPartitionConfig" [] t = "daily" -> "DailyPartitionConfig"
      [] t = "weekly" -> "WeeklyPartitionConfig" [] t = "monthly" -> "MonthlyPartitionConfig"
      [] t = "categorical" -> "CategoricalPartitionConfig"
\* A raw field map that satisfies the constraints of the variant of tag t.
ValidCheckMap(t, m) ==
    /\ t \in {"unique", "bounds", "nullity", "regex"} => ~m.column.isNone
    /\ t = "regex" => ~m.pattern.isNone
    /\ t = "volume" =>
          /\ m.anomaly_from_n.isNone \/ m.anomaly_from_n.v >= 3
          /\ m.min.isNone \/ m.min.v > 0
          /\ m.max.isNone \/ m.max.v > 0
    /\ t \in {"volume", "bounds"} => (m.min.isNone \/ m.max.isNone \/ m.min.v < m.max.v)
ValidPartitionMap(t, m) ==
    IF t = "categorical" THEN ~m.categories.isNone
    ELSE /\ m.start_date = Some(GoodDate)
         /\ m.end_date \in {None, Some(GoodDate)}

\* C5 (as claimed): every tag of CheckTypeEnum and of PartitionTypeEnum, with a
\* field map valid for its variant, builds an entity whose config is the
\* variant record of that tag; a tag outside the enum is a validation error.
C5_ResolverExhaustive ==
    /\ (pc = "check" /\ calls = 1 /\ ~orig.check_type.isNone /\ orig.config.shape = "mapping") =>
          IF orig.check_type.v \in CheckTypeEnum
          THEN ValidCheckMap(orig.check_type.v, orig.config.m) =>
                  /\ result.kind = "Check"
                  /\ result.data.config.inst.cls = CheckClass(orig.check_type.v)
          ELSE result.kind = "ValidationError" /\ result.errors = {Err("", MsgInvalidCheckType)}
    /\ (pc \in {"partition", "built"} /\ calls = 1 /\ ~orig.partition_type.isNone
            /\ orig.config.shape = "mapping" /\ ~orig.name.isNone) =>
          IF orig.partition_type.v \in PartitionTypeEnum
          THEN ValidPartitionMap(orig.partition_type.v, orig.config.m) =>
                  /\ result.kind = "Partition"
                  /\ result.data.config.inst.cls = PartitionClass(orig.partition_type.v)
          ELSE result.kind = "ValidationError" /\ result.errors = {Err("", MsgInvalidPartitionType)}

\* The cross-entity violations a raw document has, pass by pass.
AllViolations(d) ==
    (IF RepeatedNames(PartitionList(d)) # {} THEN {Err("partitions", MsgDuplicate)} ELSE {})
    \cup (IF RepeatedNames(d.assets) # {} THEN {Err("assets", MsgDuplicate)} ELSE {})
    \cup (IF DanglingDependency(d) THEN {Err("assets", MsgUndefinedAsset)} ELSE {})
    \cup (IF DanglingPartition(d) THEN {Err("", MsgUndefinedPartition)} ELSE {})
DuplicateViolations(d) ==
    {e \in AllViolations(d) : e.msg = MsgDuplicate}

CallOf(t) ==
    CASE t = "hourly" -> "HourlyPartitionsDefinition" [] t = "daily" -> "DailyPartitionsDefinition"
      [] t = "weekly" -> "WeeklyPartitionsDefinition" [] t = "monthly" -> "MonthlyPartitionsDefinition"
      [] t = "categorical" -> "StaticPartitionsDefinition"

\* C7 (as claimed): build_dagster_partition builds every validated Partition
\* with the construction call of its own kind.
C7_DispatchMatchesKind ==
    pc = "built" => built.call = CallOf(orig.partition_type.v)

\* C8 (as claimed): a validation ends in a validated model or in a validation
\* error, never in another exception.
C8_StructuredFailuresOnly ==
    /\ pc = "validated" => outcome.kind \in {"Document", "ValidationError"}
    /\ calls >= 1 => result.kind \in {"Check", "Partition", "ValidationError"}

\* C9 (as claimed): validating a raw partition or check map leaves the
\* caller's map as it was before the call.
C9_RawMapUnchanged ==
    calls >= 1 => data = orig

\* A volume / bounds check whose raw field map breaks a field-level rule.
FieldRuleBroken(t) ==
    /\ pc = "check"
    /\ calls = 1
    /\ orig.check_type = Some(t)
    /\ orig.config.shape = "mapping"
    /\ IF t = "bounds" THEN orig.config.m.column.isNone
       ELSE \/ ~orig.config.m.anomaly_from_n.isNone /\ orig.config.m.anomaly_from_n.v < 3
            \/ ~orig.config.m.min.isNone /\ orig.config.m.min.v <= 0
            \/ ~orig.config.m.max.isNone /\ orig.config.m.max.v <= 0

\* C10: when a field-level rule of a volume or bounds check config fails, the
\* error reported is field-level and the min < max rule is not reported.
C10_FieldRulesFirst ==
    \A t \in {"volume", "bounds"} :
        FieldRuleBroken(t) =>
            /\ result.kind = "ValidationError"
            /\ result.errors # {}
            /\ \A e \in result.errors : e.loc # "" /\ e.msg # MsgMinLtMax

C10_Witness ==
    /\ FieldRuleBroken("volume")
    /\ ~orig.config.m.min.isNone /\ ~orig.config.m.max.isNone
    /\ orig.config.m.min.v >= orig.config.m.max.v
    /\ result.kind = "ValidationError"

====
